---- MODULE Spec2Model ----
(***************************************************************************)
(* A model of p4rt/p4rt.c of P4-OvS: the registry of P4 devices            *)
(* (all_p4rts), the registry of backends (p4rt_classes), the per-device    *)
(* port table and program slot, the two-stage deferred destruction         *)
(* through ovsrcu_postpone, and the PI entry points.                       *)
(*                                                                         *)
(* Threads: one management thread ("the bridge") that calls the p4rt_*     *)
(* functions one at a time, one reader that calls                          *)
(* p4rt_query_switch_features, the PI server threads that call             *)
(* _pi_assign_device / _pi_update_device_start, and the RCU thread that    *)
(* runs postponed callbacks once every thread that was inside a read-side  *)
(* section at the time of the postponement has quiesced.                   *)
(***************************************************************************)
EXTENDS Integers, Sequences, FiniteSets, TLC

\* ------------------------------------------------------------------ bounds
\* Number of struct p4rt records class->alloc() can ever hand out.
MaxDevs == 2
\* Number of struct program records program_alloc() can ever hand out.
MaxProgs == 2
\* Largest number of references this module holds on one netdev.
MaxRefs == 2
\* Port numbers a backend reports are 1..MaxPort (besides OFPP_LOCAL/NONE).
MaxPort == 2

\* ------------------------------------------------------- program constants
OFPP_NONE == 65535
OFPP_LOCAL == 65534
EEXIST == 17
ENOMEM == 12
ENOENT == 2
ENODEV == 19
ENOSPC == 28
EAFNOSUPPORT == 97
\* Any non-zero errno a backend operation reports.
EBACKEND == 5
NULL == 0

DevIds == 1..MaxDevs
ProgIds == 1..MaxProgs
DevNames == {"br0"}
NetNames == {"eth0", "br0"}
PortNos == 1..MaxPort
\* Datapath types callers pass to p4rt_create(); "" is the empty string.
TypeNames == {"", "system", "bogus"}
\* Backends that can be registered and the types each one enumerates.
Classes == {"dpif", "dummy"}
Payloads == {<<1>>, <<2, 3>>}
P4Infos == {1, 2}
Readers == {"cli"}
PiThreads == {"pi1", "pi2"}
Threads == Readers \cup PiThreads

VARIABLES
    p4rt_classes,   \* Seq(Classes): registered classes, in probe order
    all_p4rts,      \* set of DevIds: the records linked into the hmap
    dev,            \* DevIds -> struct p4rt (with its backend's port list)
    prog,           \* ProgIds -> struct program
    netdev_refs,    \* NetNames -> references this module holds on the netdev
    owned,          \* devices p4rt_create() returned and the bridge still has
    mgmt,           \* the management thread: pc, device under construction
    rdr,            \* the reader thread
    pi,             \* PiThreads -> the PI call in progress
    rcu,            \* postponed callbacks: set of [fn, p, wait]
    last,           \* the last completed call: its name, arguments, result
    trace           \* the calls made by the last step, in order

vars == <<p4rt_classes, all_p4rts, dev, prog, netdev_refs, owned, mgmt, rdr,
          pi, rcu, last, trace>>

\* ------------------------------------------------------------------ events
\* A call or a step the code makes: its name, a string and a number argument
\* (a netdev or device name; a port number or record id) and a flag ('del').
EvB(e, s, n, b) == [e |-> e, s |-> s, n |-> n, b |-> b]
Ev(e, s, n) == EvB(e, s, n, FALSE)
Lock == Ev("lock", "", 0)
Unlock == Ev("unlock", "", 0)

Range(f) == {f[x] : x \in DOMAIN f}

\* Indices of the events named e in sequence t.
At(t, e) == {i \in 1..Len(t) : t[i].e = e}

\* ------------------------------------------------------------------ records
\* struct p4rt.  mem: "none" (never allocated), "live", "freed".  cons: the
\* backend's construct() has succeeded.  dead: p4rt_destroy() has returned.
\* dp: the backend's own port list for the device, a set of [name, port_no].
NoDev == [mem |-> "none", name |-> "", type |-> "", class |-> "", dev_id |-> 0,
          cons |-> FALSE, dead |-> FALSE, ports |-> {}, prog |-> NULL,
          p4info |-> NULL, dp |-> {}]
\* struct program.  mem as for struct p4rt.
NoProg == [mem |-> "none", p4rt |-> NULL, data |-> <<>>, data_len |-> 0]
\* A record handed to prog_dealloc(): what it held is gone.
FreedProg == [mem |-> "freed", p4rt |-> NULL, data |-> <<>>, data_len |-> 0]

\* The last completed management call: its name, device, name argument and
\* result; 'req' the port number it asked for (p4rt_port_add) or found
\* (p4rt_port_del); 'nbefore' the size of the device's port table before the
\* call; 'after_add' (p4rt_port_del only) whether the call before it was a
\* successful p4rt_port_add() of the same netdev to the same device with no
\* port number asked for, and then 'n0' the size of the table before that.
NoCall == [op |-> "none", p |-> NULL, name |-> "", err |-> 0, req |-> 0,
           nbefore |-> 0, after_add |-> FALSE, n0 |-> 0]

\* ------------------------------------------------------- backend registry
\* The type names class->enumerate_types() adds to the sset.
enumerate_types(class) ==
    IF class = "dpif" THEN {"system", "netdev"} ELSE {"netdev", "dummy"}

\* dpif_normalize_type(): a null or empty type means "system".
dpif_normalize_type(type) == IF type = "" THEN "system" ELSE type

\* A p4rt_class_find__() that does not compare the type names: the first
\* registered class, whatever it enumerates.
p4rt_class_find_any(type) ==
    IF p4rt_classes = <<>> THEN "" ELSE p4rt_classes[1]

\* p4rt_class_find__(): the first registered class that enumerates 'type',
\* or "" (NULL) when none does.
p4rt_class_find__(type) ==
    LET hits == {i \in 1..Len(p4rt_classes) :
                    type \in enumerate_types(p4rt_classes[i])}
    IN  IF hits = {} THEN ""
        ELSE p4rt_classes[CHOOSE i \in hits : \A j \in hits : i <= j]

\* A p4rt_class_register() that does not look for the class in the array.
p4rt_class_register_again(new_class) ==
    [err |-> 0, classes |-> Append(p4rt_classes, new_class)]

\* p4rt_class_register(): EEXIST for a class already in the array, else
\* appended.
p4rt_class_register(new_class) ==
    IF \E i \in 1..Len(p4rt_classes) : p4rt_classes[i] = new_class
    THEN [err |-> EEXIST, classes |-> p4rt_classes]
    ELSE [err |-> 0, classes |-> Append(p4rt_classes, new_class)]

Register(c) ==
    /\ mgmt.pc = "idle"
    /\ LET r == p4rt_class_register(c) IN
         /\ p4rt_classes' = r.classes
         /\ last' = [NoCall EXCEPT !.op = "register", !.name = c, !.err = r.err]
    /\ trace' = <<Ev("p4rt_class_register", c, 0)>>
    /\ UNCHANGED <<all_p4rts, dev, prog, netdev_refs, owned, mgmt, rdr, pi, rcu>>

\* ---------------------------------------------------------------- lookups
\* p4rt_lookup(): the records of the hmap named 'name'.  The hmap does not
\* forbid two records of one name (a destroyed record stays linked until its
\* postponed p4rt_destroy__() runs); the walk returns the first it meets, and
\* which that is depends on the bucket order, so every one is a possible
\* result.  The empty set stands for NULL.
p4rt_lookup(name) == {i \in all_p4rts : dev[i].name = name}

\* A p4rt_lookup_by_dev_id() that does not compare the ids.
p4rt_lookup_any_dev_id(dev_id) == all_p4rts

\* p4rt_lookup_by_dev_id(): likewise, over the whole hmap.
p4rt_lookup_by_dev_id(dev_id) == {i \in all_p4rts : dev[i].dev_id = dev_id}

\* Threads inside a read-side section: they hold a pointer into the registry.
Active == {t \in Readers : rdr.pc # "idle"} \cup
          {t \in PiThreads : pi[t].pc # "idle"}

\* ovsrcu_postpone(fn, p): the callback runs after every thread now inside a
\* read-side section has quiesced.
ovsrcu_postpone(q, fn, p) == q \cup {[fn |-> fn, p |-> p, wait |-> Active]}

\* ovsrcu_quiesce() by thread t.
Quiesce(q, t) == {[c EXCEPT !.wait = c.wait \ {t}] : c \in q}

\* ------------------------------------------------------------------ ports
\* A port context c = [ports, refs, tr]: the device's port table, the netdev
\* reference counts and the calls made so far.  A port is [port_no, netdev].
NoPort == [port_no |-> 0, netdev |-> ""]

netdev_open(c, name) ==
    [c EXCEPT !.refs[name] = @ + 1, !.tr = Append(@, Ev("netdev_open", name, 0))]

netdev_close(c, name) ==
    [c EXCEPT !.refs[name] = @ - 1, !.tr = Append(@, Ev("netdev_close", name, 0))]

\* p4port_destroy__(): unlink, close the netdev, port_dealloc.
p4port_destroy__(c, port) ==
    LET c1 == [c EXCEPT !.ports = @ \ {port},
                        !.tr = Append(@, Ev("hmap_remove", port.netdev, port.port_no))]
        c2 == netdev_close(c1, port.netdev)
    IN  [c2 EXCEPT !.tr = Append(@, Ev("port_dealloc", port.netdev, port.port_no))]

\* p4port_destroy(): nothing for NULL, else port_destruct(port, del) and
\* p4port_destroy__().
p4port_destroy(c, port, del) ==
    IF port = NoPort THEN c
    ELSE p4port_destroy__(
            [c EXCEPT !.tr = Append(@, EvB("port_destruct", port.netdev,
                                           port.port_no, del))], port)

\* A p4port_remove() that leaves the port where it is.
p4port_remove_skip(c, port) == c

\* A p4port_remove() that skips the backend's port_destruct().
p4port_remove_no_destruct(c, port) ==
    IF port = NoPort THEN c ELSE p4port_destroy__(c, port)

\* p4port_remove(): p4port_destroy(port, true).
p4port_remove(c, port) == p4port_destroy(c, port, TRUE)

\* p4rt_get_port(): the port numbered port_no, or NULL.
p4rt_get_port(ports, port_no) ==
    IF \E q \in ports : q.port_no = port_no
    THEN CHOOSE q \in ports : q.port_no = port_no
    ELSE NoPort

\* p4rt_get_port_by_name(): the ports whose netdev is named 'name'; the walk
\* returns the first in bucket order, so each is a possible result.
p4rt_get_port_by_name(ports, name) == {q \in ports : q.netdev = name}

\* port_query_by_name() of the backend, whose port list dp is a set of
\* [name, port_no]; p4rt_port_query_by_name() zeroes the result on error.
p4rt_port_query_by_name(dp, name) ==
    IF \E e \in dp : e.name = name
    THEN [err |-> 0, name |-> name,
          port_no |-> (CHOOSE e \in dp : e.name = name).port_no]
    ELSE [err |-> ENODEV, name |-> "", port_no |-> 0]

\* An alloc_p4rt_port() that hands out the lowest number no port has.
alloc_p4rt_port_next(ports, netdev_name) ==
    IF \E n \in PortNos : p4rt_get_port(ports, n) = NoPort
    THEN CHOOSE n \in PortNos : /\ p4rt_get_port(ports, n) = NoPort
                                /\ \A m \in PortNos :
                                      p4rt_get_port(ports, m) = NoPort => n <= m
    ELSE OFPP_NONE

\* alloc_p4rt_port(): the stub that always answers 1.
alloc_p4rt_port(ports, netdev_name) == 1

\* A p4rt_port_open() that returns netdev_open()'s error to its caller.
p4rt_port_open_report(c, p4rt_name, p4port, open_ok) ==
    IF ~open_ok
    THEN [err |-> ENODEV, netdev |-> "", port_no |-> p4port.port_no,
          c |-> [c EXCEPT !.tr = Append(@, Ev("netdev_open_failed", p4port.name, 0))]]
    ELSE LET c1 == netdev_open(c, p4port.name) IN
         [err |-> 0, netdev |-> p4port.name,
          port_no |-> IF p4port.port_no # OFPP_NONE THEN p4port.port_no
                      ELSE IF p4rt_name = p4port.name THEN OFPP_LOCAL ELSE 1,
          c |-> c1]

\* p4rt_port_open(): [err, netdev, port_no, c].  netdev_open() failing
\* (open_ok = FALSE) is reported as success with no netdev.
p4rt_port_open(c, p4rt_name, p4port, open_ok) ==
    IF ~open_ok
    THEN [err |-> 0, netdev |-> "", port_no |-> p4port.port_no,
          c |-> [c EXCEPT !.tr = Append(@, Ev("netdev_open_failed", p4port.name, 0))]]
    ELSE LET c1 == netdev_open(c, p4port.name) IN
         IF p4port.port_no # OFPP_NONE
         THEN [err |-> 0, netdev |-> p4port.name, port_no |-> p4port.port_no, c |-> c1]
         ELSE IF p4rt_name = p4port.name
         THEN [err |-> 0, netdev |-> p4port.name, port_no |-> OFPP_LOCAL, c |-> c1]
         ELSE LET port_no == alloc_p4rt_port(c.ports, p4port.name) IN
              IF port_no = OFPP_NONE
              THEN [err |-> ENOSPC, netdev |-> "", port_no |-> OFPP_NONE,
                    c |-> netdev_close(c1, p4port.name)]
              ELSE [err |-> 0, netdev |-> p4port.name, port_no |-> port_no, c |-> c1]

\* p4port_install(): [err, c].  port_alloc() failing closes the netdev;
\* port_construct() failing after the insert runs p4port_destroy__().
p4port_install(c, netdev, port_no, alloc_ok, cons_ok) ==
    IF ~alloc_ok
    THEN [err |-> ENOMEM,
          c |-> netdev_close([c EXCEPT !.tr = Append(@, Ev("port_alloc_failed", netdev, port_no))],
                             netdev)]
    ELSE LET port == [port_no |-> port_no, netdev |-> netdev]
             c1 == [c EXCEPT !.ports = @ \cup {port},
                             !.tr = @ \o <<Ev("port_alloc", netdev, port_no),
                                           Ev("hmap_insert", netdev, port_no),
                                           EvB("port_construct", netdev, port_no, cons_ok)>>]
         IN  IF cons_ok THEN [err |-> 0, c |-> c1]
             ELSE [err |-> EBACKEND, c |-> p4port_destroy__(c1, port)]

\* update_port(): [err, c].  env = [open, alloc, cons]: whether
\* netdev_open(), port_alloc() and port_construct() succeed this time.
update_port(c, p4rt_name, dp, name, env) ==
    LET q == p4rt_port_query_by_name(dp, name)
        c0 == [c EXCEPT !.tr = Append(@, Ev("port_query_by_name", name, q.err))]
        o == IF q.err # 0
             THEN [err |-> 0, netdev |-> "", port_no |-> 0, c |-> c0]
             ELSE p4rt_port_open(c0, p4rt_name, q, env.open)
    IN  IF o.netdev = "" THEN [err |-> o.err, c |-> o.c]
        ELSE LET port == p4rt_get_port(o.c.ports, o.port_no) IN
             IF port # NoPort /\ port.netdev = name
             THEN [err |-> o.err, c |-> o.c]
             ELSE p4port_install(p4port_remove(o.c, port), o.netdev, o.port_no,
                                 env.alloc, env.cons)

\* -------------------------------------------------------------- lifecycle
\* A p4rt_destroy__() that calls class->dealloc() before it unlocks.
p4rt_destroy_locked__(st, p) ==
    [all |-> st.all \ {p},
     dev |-> [st.dev EXCEPT ![p].mem = "freed"],
     tr  |-> st.tr \o <<Lock, Ev("hmap_remove_p4rt", st.dev[p].name, p),
                        Ev("dealloc", st.dev[p].name, p), Unlock>>]

\* A p4rt_destroy__() that leaves the record linked in all_p4rts.
p4rt_destroy_linked__(st, p) ==
    [all |-> st.all,
     dev |-> [st.dev EXCEPT ![p].mem = "freed"],
     tr  |-> st.tr \o <<Lock, Unlock, Ev("dealloc", st.dev[p].name, p)>>]

\* p4rt_destroy__(): under the mutex unlink the record from all_p4rts; then
\* free its strings and port map and hand it to class->dealloc().
\* st = [all, dev, tr].
p4rt_destroy__(st, p) ==
    [all |-> st.all \ {p},
     dev |-> [st.dev EXCEPT ![p].mem = "freed"],
     tr  |-> st.tr \o <<Lock, Ev("hmap_remove_p4rt", st.dev[p].name, p), Unlock,
                        Ev("dealloc", st.dev[p].name, p)>>]

\* The record class->alloc() returns: the lowest one never handed out.
FreeDev == CHOOSE i \in DevIds :
              /\ dev[i].mem = "none"
              /\ \A j \in DevIds : dev[j].mem = "none" => i <= j

\* p4rt_create(), up to the unlock: find the class (EAFNOSUPPORT), alloc
\* (ENOMEM), and under the mutex initialise the record and link it into
\* all_p4rts.  No record of that name is looked for first.
CreateBegin(name, type, alloc_ok) ==
    /\ mgmt.pc = "idle"
    /\ LET datapath_type == dpif_normalize_type(type)
           class == p4rt_class_find__(datapath_type)
           call == [NoCall EXCEPT !.op = "create", !.name = name]
       IN  IF class = ""
           THEN /\ last' = [call EXCEPT !.err = EAFNOSUPPORT]
                /\ trace' = <<Ev("p4rt_create", type, 0)>>
                /\ UNCHANGED <<all_p4rts, dev, mgmt>>
           ELSE IF ~alloc_ok
           THEN /\ last' = [call EXCEPT !.err = ENOMEM]
                /\ trace' = <<Ev("p4rt_create", type, 0), Ev("alloc_failed", name, 0)>>
                /\ UNCHANGED <<all_p4rts, dev, mgmt>>
           ELSE /\ \E i \in DevIds : dev[i].mem = "none"
                /\ dev' = [dev EXCEPT ![FreeDev] =
                              [NoDev EXCEPT !.mem = "live", !.name = name,
                                            !.type = datapath_type,
                                            !.class = class, !.dev_id = 0]]
                /\ all_p4rts' = all_p4rts \cup {FreeDev}
                /\ mgmt' = [pc |-> "construct", p |-> FreeDev]
                /\ trace' = <<Ev("p4rt_create", type, 0), Ev("alloc", name, FreeDev),
                              Lock, Ev("hmap_insert_p4rt", name, FreeDev), Unlock>>
                /\ last' = last
    /\ UNCHANGED <<p4rt_classes, prog, netdev_refs, owned, rdr, pi, rcu>>

\* p4rt_create(), from class->construct() on: on failure p4rt_destroy__()
\* and the error; on success the device goes to the caller.
CreateConstruct(cons_ok) ==
    /\ mgmt.pc = "construct"
    /\ LET p == mgmt.p
           call == [NoCall EXCEPT !.op = "create", !.name = dev[p].name, !.p = p]
           tr0 == <<EvB("construct", dev[p].name, p, cons_ok)>>
       IN  IF cons_ok
           THEN /\ dev' = [dev EXCEPT ![p].cons = TRUE]
                /\ owned' = owned \cup {p}
                /\ last' = call
                /\ trace' = tr0
                /\ UNCHANGED all_p4rts
           ELSE LET st == p4rt_destroy__([all |-> all_p4rts, dev |-> dev, tr |-> tr0], p)
                IN  /\ dev' = st.dev
                    /\ all_p4rts' = st.all
                    /\ trace' = st.tr
                    /\ last' = [call EXCEPT !.err = EBACKEND, !.p = NULL]
                    /\ UNCHANGED owned
    /\ mgmt' = [pc |-> "idle", p |-> NULL]
    /\ UNCHANGED <<p4rt_classes, prog, netdev_refs, rdr, pi, rcu>>

\* A walk of the port table that stops after the first port.
destroy_ports_first(c, del) ==
    IF c.ports = {} THEN c
    ELSE p4port_destroy(c, CHOOSE q \in c.ports : TRUE, del)

\* HMAP_FOR_EACH_SAFE over the port table, p4port_destroy() on each.
RECURSIVE destroy_ports(_, _)
destroy_ports(c, del) ==
    IF c.ports = {} THEN c
    ELSE destroy_ports(p4port_destroy(c, CHOOSE q \in c.ports : TRUE, del), del)

\* p4rt_program_destroy(): for a non-null program, prog_del and
\* prog_dealloc.  pc = [prog, tr].
p4rt_program_destroy(pc, pg) ==
    IF pg = NULL THEN pc
    ELSE [prog |-> [pc.prog EXCEPT ![pg] = FreedProg],
          tr |-> pc.tr \o <<Ev("prog_del", pc.prog[pg].mem, pg),
                            Ev("prog_dealloc", pc.prog[pg].mem, pg)>>]

\* p4rt_destroy(): every port, the program, class->destruct(), and the
\* postponement of p4rt_destroy_defer__().
Destroy(p, del) ==
    /\ mgmt.pc = "idle"
    /\ p \in owned
    /\ LET c == destroy_ports([ports |-> dev[p].ports, refs |-> netdev_refs,
                               tr |-> <<EvB("p4rt_destroy", dev[p].name, p, del)>>], del)
           g == p4rt_program_destroy([prog |-> prog, tr |-> c.tr], dev[p].prog)
       IN  /\ dev' = [dev EXCEPT ![p].ports = c.ports, ![p].dead = TRUE, ![p].dp = {}]
           /\ netdev_refs' = c.refs
           /\ prog' = g.prog
           /\ trace' = g.tr \o <<EvB("destruct", dev[p].name, p, del),
                                  Ev("ovsrcu_postpone", "p4rt_destroy_defer__", p)>>
           /\ last' = [NoCall EXCEPT !.op = "destroy", !.p = p, !.name = dev[p].name,
                                     !.nbefore = Cardinality(dev[p].ports)]
    /\ rcu' = ovsrcu_postpone(rcu, "p4rt_destroy_defer__", p)
    /\ owned' = owned \ {p}
    /\ UNCHANGED <<p4rt_classes, all_p4rts, mgmt, rdr, pi>>

\* The RCU thread runs p4rt_destroy_defer__(p), which postpones
\* p4rt_destroy__(p).
RcuDefer(cb) ==
    /\ cb \in rcu
    /\ cb.fn = "p4rt_destroy_defer__"
    /\ cb.wait = {}
    /\ rcu' = ovsrcu_postpone(rcu \ {cb}, "p4rt_destroy__", cb.p)
    /\ trace' = <<Ev("p4rt_destroy_defer__", "", cb.p),
                  Ev("ovsrcu_postpone", "p4rt_destroy__", cb.p)>>
    /\ UNCHANGED <<p4rt_classes, all_p4rts, dev, prog, netdev_refs, owned, mgmt,
                   rdr, pi, last>>

\* The RCU thread runs p4rt_destroy__(p).
RcuDestroy(cb) ==
    /\ cb \in rcu
    /\ cb.fn = "p4rt_destroy__"
    /\ cb.wait = {}
    /\ LET st == p4rt_destroy__([all |-> all_p4rts, dev |-> dev,
                                 tr |-> <<Ev("p4rt_destroy__", "", cb.p)>>], cb.p)
       IN  /\ all_p4rts' = st.all
           /\ dev' = st.dev
           /\ trace' = st.tr
    /\ rcu' = rcu \ {cb}
    /\ UNCHANGED <<p4rt_classes, prog, netdev_refs, owned, mgmt, rdr, pi, last>>

\* ------------------------------------------------- the backend's port list
\* class->port_add(p, netdev, port_no): the outcomes a backend may give.  It
\* may fail; it may accept a netdev it already has and change nothing; for a
\* new netdev it records the requested number if that is free, and for a
\* request of OFPP_NONE either its lowest free number or none at all
\* (OFPP_NONE, which p4rt_port_open() then resolves).
port_add(dp, name, port_no) ==
    LET used == {e.port_no : e \in dp}
        free == PortNos \ used
        nums == IF port_no # OFPP_NONE THEN {port_no} \ used
                ELSE {OFPP_NONE} \cup {n \in free : \A m \in free : n <= m}
    IN  {[err |-> EBACKEND, dp |-> dp]} \cup
        (IF \E e \in dp : e.name = name
         THEN {[err |-> 0, dp |-> dp]}
         ELSE {[err |-> 0, dp |-> dp \cup {[name |-> name, port_no |-> n]}] :
                  n \in nums})

\* class->port_del(p, port_no): fails, or drops the port of that number.
port_del(dp, port_no) ==
    {[err |-> EBACKEND, dp |-> dp]} \cup
    (IF \E e \in dp : e.port_no = port_no
     THEN {[err |-> 0, dp |-> {e \in dp : e.port_no # port_no}]}
     ELSE {})

\* The outcomes of netdev_open(), port_alloc() and port_construct() in one
\* update_port(); a step that is not reached is written as succeeding.
Envs == {e \in [open : BOOLEAN, alloc : BOOLEAN, cons : BOOLEAN] :
            /\ ~e.open => e.alloc
            /\ ~e.alloc => e.cons}
EnvOk == [open |-> TRUE, alloc |-> TRUE, cons |-> TRUE]

\* p4rt_port_add(): class->port_add(), on success update_port(), and when the
\* caller passed ofp_portp (has_portp) the backend is asked again for the
\* number; a failure of that query is the call's error.
PortAdd(p, name, port_no, has_portp, env) ==
    /\ mgmt.pc = "idle"
    /\ p \in owned
    /\ has_portp \/ port_no = OFPP_NONE
    /\ netdev_refs[name] < MaxRefs
    /\ \E r \in port_add(dev[p].dp, name, port_no) :
         LET c0 == [ports |-> dev[p].ports, refs |-> netdev_refs,
                    tr |-> <<Ev("p4rt_port_add", name, port_no),
                             Ev("port_add", name, r.err)>>]
             u == IF r.err # 0 THEN [err |-> r.err, c |-> c0]
                  ELSE update_port(c0, dev[p].name, r.dp, name, env)
             q == p4rt_port_query_by_name(r.dp, name)
             error == IF has_portp /\ u.err = 0 THEN q.err ELSE u.err
         IN  /\ r.err # 0 => env = EnvOk
             /\ dev' = [dev EXCEPT ![p].ports = u.c.ports, ![p].dp = r.dp]
             /\ netdev_refs' = u.c.refs
             /\ trace' = u.c.tr
             /\ last' = [NoCall EXCEPT !.op = "port_add", !.p = p, !.name = name,
                                       !.err = error, !.req = port_no,
                                       !.nbefore = Cardinality(dev[p].ports)]
    /\ UNCHANGED <<p4rt_classes, all_p4rts, prog, owned, mgmt, rdr, pi, rcu>>

\* p4rt_port_del(): ENODEV when no port has the name; else class->port_del()
\* with the port's number and, on success, update_port() (whose result is
\* dropped).
PortDel(p, name, env) ==
    /\ mgmt.pc = "idle"
    /\ p \in owned
    /\ netdev_refs[name] < MaxRefs
    /\ LET after_add == /\ last.op = "port_add" /\ last.p = p /\ last.name = name
                        /\ last.err = 0 /\ last.req = OFPP_NONE
           call == [NoCall EXCEPT !.op = "port_del", !.p = p, !.name = name,
                                  !.nbefore = Cardinality(dev[p].ports),
                                  !.after_add = after_add,
                                  !.n0 = IF after_add THEN last.nbefore ELSE 0]
           tr0 == <<Ev("p4rt_port_del", name, 0)>>
       IN  IF p4rt_get_port_by_name(dev[p].ports, name) = {}
           THEN /\ env = EnvOk
                /\ last' = [call EXCEPT !.err = ENODEV]
                /\ trace' = tr0
                /\ UNCHANGED <<dev, netdev_refs>>
           ELSE \E p4port \in p4rt_get_port_by_name(dev[p].ports, name) :
                \E r \in port_del(dev[p].dp, p4port.port_no) :
                  LET c0 == [ports |-> dev[p].ports, refs |-> netdev_refs,
                             tr |-> Append(tr0, Ev("port_del", name, r.err))]
                      u == IF r.err # 0 THEN [err |-> r.err, c |-> c0]
                           ELSE update_port(c0, dev[p].name, r.dp, name, env)
                  IN  /\ r.err # 0 => env = EnvOk
                      /\ dev' = [dev EXCEPT ![p].ports = u.c.ports, ![p].dp = r.dp]
                      /\ netdev_refs' = u.c.refs
                      /\ trace' = u.c.tr
                      /\ last' = [call EXCEPT !.err = r.err, !.req = p4port.port_no]
    /\ UNCHANGED <<p4rt_classes, all_p4rts, prog, owned, mgmt, rdr, pi, rcu>>

\* --------------------------------------------- programs, from the bridge
\* The record program_alloc() returns: the lowest one never handed out.
FreeProg == CHOOSE g \in ProgIds :
               /\ prog[g].mem = "none"
               /\ \A h \in ProgIds : prog[h].mem = "none" => g <= h

\* p4rt_initialize_datapath(): nothing when the device has a program; ENOENT
\* when the file cannot be opened; ENOMEM when program_alloc() fails; the
\* backend's error when program_insert() fails (the program is then left
\* allocated, see the TODO); else the program goes into the slot.
InitializeDatapath(p, data, file_ok, alloc_ok, insert_ok) ==
    /\ mgmt.pc = "idle"
    /\ p \in owned
    /\ LET call == [NoCall EXCEPT !.op = "initialize_datapath", !.p = p,
                                  !.name = dev[p].name]
           tr0 == <<Ev("p4rt_initialize_datapath", dev[p].name, p)>>
       IN  IF dev[p].prog # NULL
           THEN /\ file_ok /\ alloc_ok /\ insert_ok
                /\ last' = call
                /\ trace' = tr0
                /\ UNCHANGED <<dev, prog>>
           ELSE IF ~file_ok
           THEN /\ alloc_ok /\ insert_ok
                /\ last' = [call EXCEPT !.err = ENOENT]
                /\ trace' = tr0
                /\ UNCHANGED <<dev, prog>>
           ELSE IF ~alloc_ok
           THEN /\ insert_ok
                /\ last' = [call EXCEPT !.err = ENOMEM]
                /\ trace' = Append(tr0, Ev("program_alloc_failed", "", 0))
                /\ UNCHANGED <<dev, prog>>
           ELSE /\ \E g \in ProgIds : prog[g].mem = "none"
                /\ prog' = [prog EXCEPT ![FreeProg] =
                               [mem |-> "live", p4rt |-> p, data |-> data,
                                data_len |-> Len(data)]]
                /\ trace' = tr0 \o <<Ev("program_alloc", "", FreeProg),
                                     EvB("program_insert", "", FreeProg, insert_ok)>>
                /\ dev' = [dev EXCEPT ![p].prog = IF insert_ok THEN FreeProg ELSE @]
                /\ last' = [call EXCEPT !.err = IF insert_ok THEN 0 ELSE EBACKEND]
    /\ UNCHANGED <<p4rt_classes, all_p4rts, netdev_refs, owned, mgmt, rdr, pi, rcu>>

\* p4rt_prog_del(): p4rt_program_destroy(p->prog); the slot is not written.
ProgDel(p) ==
    /\ mgmt.pc = "idle"
    /\ p \in owned
    /\ LET g == p4rt_program_destroy(
                    [prog |-> prog, tr |-> <<Ev("p4rt_prog_del", dev[p].name, p)>>],
                    dev[p].prog)
       IN  /\ prog' = g.prog
           /\ trace' = g.tr
    /\ last' = [NoCall EXCEPT !.op = "prog_del", !.p = p, !.name = dev[p].name]
    /\ UNCHANGED <<p4rt_classes, all_p4rts, dev, netdev_refs, owned, mgmt, rdr, pi, rcu>>

\* ------------------------------------------------------------- the reader
\* A p4rt_query_switch_features() that reports no port.
p4rt_query_switch_features_none(all, devs, name) ==
    {[err |-> 0, n_tables |-> 0, n_ports |-> 0]}

\* p4rt_query_switch_features() run in one piece on the registry 'all' and
\* the records 'devs': ENODEV (features untouched, written as zeros) when no
\* record has the name, else n_tables = 0 and n_ports = hmap_count(ports) of
\* the record the lookup returns.  The set of its possible results.
p4rt_query_switch_features(all, devs, name) ==
    LET found == {i \in all : devs[i].name = name}
    IN  IF found = {}
        THEN {[err |-> ENODEV, n_tables |-> 0, n_ports |-> 0]}
        ELSE {[err |-> 0, n_tables |-> 0,
               n_ports |-> Cardinality(devs[i].ports)] : i \in found}

\* p4rt_query_switch_features(), the lookup: ENODEV when p4rt_lookup() finds
\* nothing, else the reader holds the pointer.  The reader records what was
\* true of the record when it got it: cons (constructed) and dead
\* (p4rt_destroy() had returned).  What a call returns is the last event of
\* its last step.
IdleReader == [pc |-> "idle", p |-> NULL, name |-> "", cons |-> FALSE,
               dead |-> FALSE]

ReaderLookup(name) ==
    /\ rdr.pc = "idle"
    /\ IF p4rt_lookup(name) = {}
       THEN /\ rdr' = IdleReader
            /\ trace' = <<Ev("p4rt_lookup", name, NULL), Ev("return", name, ENODEV)>>
       ELSE \E p \in p4rt_lookup(name) :
            /\ rdr' = [IdleReader EXCEPT !.pc = "hold", !.p = p, !.name = name,
                                         !.cons = dev[p].cons, !.dead = dev[p].dead]
            /\ trace' = <<Ev("p4rt_lookup", name, p)>>
    /\ UNCHANGED <<p4rt_classes, all_p4rts, dev, prog, netdev_refs, owned, mgmt,
                   pi, rcu, last>>

\* p4rt_query_switch_features(), the use of the pointer: n_tables = 0 and
\* n_ports = hmap_count(&p4rt->ports).  Read from a record already handed to
\* dealloc(), the count is whatever the memory holds.
ReaderUse(n) ==
    /\ rdr.pc = "hold"
    /\ IF dev[rdr.p].mem = "live"
       THEN n = Cardinality(dev[rdr.p].ports)
       ELSE n \in 0..1
    /\ rdr' = IdleReader
    /\ rcu' = Quiesce(rcu, "cli")
    /\ trace' = <<Ev("n_tables", rdr.name, 0), Ev("n_ports", rdr.name, n),
                  Ev("return", rdr.name, 0)>>
    /\ UNCHANGED <<p4rt_classes, all_p4rts, dev, prog, netdev_refs, owned, mgmt,
                   pi, last>>

\* --------------------------------------------------- the PI entry points
\* A PI thread: where it is in its call, the device and program records it
\* holds, whether it allocated the program, and the call's arguments.
IdlePi == [pc |-> "idle", p |-> NULL, g |-> NULL, fresh |-> FALSE,
           data |-> <<>>, info |-> NULL]

\* The status a PI call returns, as the last event of the step.
Return(t, status) == Ev("return", status, 0)

\* What a read of p4rt->prog gives: the slot, or for a record already handed
\* to dealloc() whatever the memory holds (the old slot or zero).
SlotRead(p) == IF dev[p].mem = "live" THEN {dev[p].prog} ELSE {dev[p].prog, NULL}

\* _pi_assign_device(), the lookup (no lock is taken for it):
\* PI_STATUS_DEV_NOT_ASSIGNED when no record has the id.
PiAssignStart(t, dev_id, p4info) ==
    /\ pi[t].pc = "idle"
    /\ IF p4rt_lookup_by_dev_id(dev_id) = {}
       THEN /\ pi' = [pi EXCEPT ![t] = IdlePi]
            /\ trace' = <<Ev("_pi_assign_device", t, dev_id),
                          Ev("p4rt_lookup_by_dev_id", t, dev_id),
                          Return(t, "DEV_NOT_ASSIGNED")>>
       ELSE /\ \E p \in p4rt_lookup_by_dev_id(dev_id) :
                 pi' = [pi EXCEPT ![t] = [IdlePi EXCEPT !.pc = "assign", !.p = p,
                                                        !.info = p4info]]
            /\ trace' = <<Ev("_pi_assign_device", t, dev_id),
                          Ev("p4rt_lookup_by_dev_id", t, dev_id)>>
    /\ UNCHANGED <<p4rt_classes, all_p4rts, dev, prog, netdev_refs, owned, mgmt,
                   rdr, rcu, last>>

\* _pi_assign_device(), the assignment of p4rt->p4info under the mutex.
PiAssignSet(t) ==
    /\ pi[t].pc = "assign"
    /\ dev' = [dev EXCEPT ![pi[t].p].p4info = pi[t].info]
    /\ pi' = [pi EXCEPT ![t] = IdlePi]
    /\ rcu' = Quiesce(rcu, t)
    /\ trace' = <<Lock, Ev("write_p4info", t, pi[t].p), Unlock, Return(t, "SUCCESS")>>
    /\ UNCHANGED <<p4rt_classes, all_p4rts, prog, netdev_refs, owned, mgmt, rdr, last>>

\* _pi_update_device_start(), the lookup: PI_STATUS_DEV_OUT_OF_RANGE when no
\* record has the id.
PiUpdateStart(t, dev_id, data) ==
    /\ pi[t].pc = "idle"
    /\ IF p4rt_lookup_by_dev_id(dev_id) = {}
       THEN /\ pi' = [pi EXCEPT ![t] = IdlePi]
            /\ trace' = <<Ev("_pi_update_device_start", t, dev_id),
                          Ev("p4rt_lookup_by_dev_id", t, dev_id),
                          Return(t, "DEV_OUT_OF_RANGE")>>
       ELSE /\ \E p \in p4rt_lookup_by_dev_id(dev_id) :
                 pi' = [pi EXCEPT ![t] = [IdlePi EXCEPT !.pc = "check", !.p = p,
                                                        !.data = data]]
            /\ trace' = <<Ev("_pi_update_device_start", t, dev_id),
                          Ev("p4rt_lookup_by_dev_id", t, dev_id)>>
    /\ UNCHANGED <<p4rt_classes, all_p4rts, dev, prog, netdev_refs, owned, mgmt,
                   rdr, rcu, last>>

\* An if (!p4rt->prog) that always takes the allocating branch.
slot_is_empty_always(slot) == TRUE

\* if (!p4rt->prog): whether the call allocates a record (the slot read
\* empty) instead of taking the one in the slot.
slot_is_empty(slot) == slot = NULL

\* _pi_update_device_start(), the choice of the program record:
\* program_alloc() when the slot is empty (ENOMEM, hence
\* PI_STATUS_TARGET_ERROR, when it gives none), the record in the slot
\* otherwise.
PiUpdateCheck(t, alloc_ok) ==
    /\ pi[t].pc = "check"
    /\ LET p == pi[t].p IN
       \E slot \in SlotRead(p) :
         IF slot_is_empty(slot)
         THEN IF ~alloc_ok
              THEN /\ pi' = [pi EXCEPT ![t] = IdlePi]
                   /\ rcu' = Quiesce(rcu, t)
                   /\ trace' = <<Ev("read_prog", t, slot),
                                 Ev("program_alloc_failed", t, 0),
                                 Return(t, "TARGET_ERROR")>>
                   /\ prog' = prog
              ELSE /\ \E g \in ProgIds : prog[g].mem = "none"
                   /\ prog' = [prog EXCEPT ![FreeProg].mem = "live"]
                   /\ pi' = [pi EXCEPT ![t].pc = "insert", ![t].g = FreeProg,
                                        ![t].fresh = TRUE]
                   /\ trace' = <<Ev("read_prog", t, slot),
                                 Ev("program_alloc", t, FreeProg)>>
                   /\ rcu' = rcu
         ELSE /\ alloc_ok
              /\ pi' = [pi EXCEPT ![t].pc = "insert", ![t].g = slot]
              /\ trace' = <<Ev("read_prog", t, slot)>>
              /\ UNCHANGED <<prog, rcu>>
    /\ UNCHANGED <<p4rt_classes, all_p4rts, dev, netdev_refs, owned, mgmt, rdr, last>>

\* The record after prog->p4rt, prog->data and prog->data_len are written.
fill_program(progs, g, p, data) ==
    [progs EXCEPT ![g].p4rt = p, ![g].data = data, ![g].data_len = Len(data)]

\* The rest of _pi_update_device_start(): the record gets the device, the
\* bytes and the length, then program_insert(); on success the record goes
\* into the slot (the event's flag: the call allocated it); on failure it is
\* deallocated if the slot reads empty.
PiUpdateInsert(t, insert_ok) ==
    /\ pi[t].pc = "insert"
    /\ LET p == pi[t].p
           g == pi[t].g
           filled == fill_program(prog, g, p, pi[t].data)
           tr0 == <<Ev("write_prog_data", t, g), EvB("program_insert", t, g, insert_ok)>>
       IN  IF insert_ok
           THEN /\ prog' = filled
                /\ dev' = [dev EXCEPT ![p].prog = g]
                /\ pi' = [pi EXCEPT ![t] = IdlePi]
                /\ trace' = tr0 \o <<EvB("write_prog", t, g, pi[t].fresh),
                                      Return(t, "SUCCESS")>>
           ELSE \E slot \in SlotRead(p) :
                /\ prog' = IF slot = NULL /\ g # NULL
                           THEN [filled EXCEPT ![g] = FreedProg]
                           ELSE filled
                /\ dev' = dev
                /\ pi' = [pi EXCEPT ![t] = IdlePi]
                /\ trace' = IF slot = NULL /\ g # NULL
                            THEN tr0 \o <<Ev("read_prog", t, slot),
                                          Ev("prog_dealloc", t, g),
                                          Return(t, "TARGET_ERROR")>>
                            ELSE tr0 \o <<Ev("read_prog", t, slot),
                                          Return(t, "TARGET_ERROR")>>
    /\ rcu' = Quiesce(rcu, t)
    /\ UNCHANGED <<p4rt_classes, all_p4rts, netdev_refs, owned, mgmt, rdr, last>>

\* ------------------------------------------------------------- the system
\* The static initialisers: no class registered, an empty all_p4rts.
Init ==
    /\ p4rt_classes = <<>>
    /\ all_p4rts = {}
    /\ dev = [i \in DevIds |-> NoDev]
    /\ prog = [g \in ProgIds |-> NoProg]
    /\ netdev_refs = [n \in NetNames |-> 0]
    /\ owned = {}
    /\ mgmt = [pc |-> "idle", p |-> NULL]
    /\ rdr = IdleReader
    /\ pi = [t \in PiThreads |-> IdlePi]
    /\ rcu = {}
    /\ last = NoCall
    /\ trace = <<>>

\* p4rt_init(): registers p4rt_dpif_class.
P4rtInit == Register("dpif")

ReqPorts == PortNos \cup {OFPP_NONE}
\* The device ids PI callers pass: 0, which every device has, and another.
PiDevIds == {0, 1}

Create ==
    \/ \E name \in DevNames, type \in TypeNames, ok \in BOOLEAN :
          CreateBegin(name, type, ok)
    \/ \E ok \in BOOLEAN : CreateConstruct(ok)

\* p4rt_create() of a "system" device where nothing fails, for a name of
\* which the bridge has no device.
CreateOk ==
    \/ \E name \in DevNames :
          /\ \A i \in owned : dev[i].name # name
          /\ CreateBegin(name, "system", TRUE)
    \/ CreateConstruct(TRUE)

Rcu ==
    \/ \E cb \in rcu : RcuDefer(cb)
    \/ \E cb \in rcu : RcuDestroy(cb)

Reader ==
    \/ \E name \in DevNames : ReaderLookup(name)
    \/ \E n \in 0..(MaxPort + 2) : ReaderUse(n)

PiUpdate(T) ==
    \/ \E t \in T, id \in PiDevIds, data \in Payloads : PiUpdateStart(t, id, data)
    \/ \E t \in T, ok \in BOOLEAN : PiUpdateCheck(t, ok)
    \/ \E t \in T, ok \in BOOLEAN : PiUpdateInsert(t, ok)

PiAssign(T) ==
    \/ \E t \in T, id \in PiDevIds, info \in P4Infos : PiAssignStart(t, id, info)
    \/ \E t \in T : PiAssignSet(t)

\* The registry: classes, create and destroy, the RCU thread, a reader.
Next ==
    \/ \E c \in Classes : Register(c)
    \/ Create
    \/ \E p \in DevIds, del \in BOOLEAN : Destroy(p, del)
    \/ Rcu
    \/ Reader

Spec == Init /\ [][Next]_vars

\* The ports of a device: the bridge adding and removing them.
NextPorts ==
    \/ P4rtInit
    \/ CreateOk
    \/ \E p \in DevIds, name \in NetNames, n \in ReqPorts, has \in BOOLEAN,
          env \in Envs : PortAdd(p, name, n, has, env)
    \/ \E p \in DevIds, name \in NetNames, env \in Envs : PortDel(p, name, env)

SpecPorts == Init /\ [][NextPorts]_vars

\* The PI entry points called one call after the other, from one thread.
NextSeq ==
    \/ P4rtInit
    \/ CreateOk
    \/ PiUpdate({"pi1"})
    \/ PiAssign({"pi1"})

SpecSeq == Init /\ [][NextSeq]_vars

\* _pi_update_device_start() and _pi_assign_device() called from two threads
\* at once.
NextPi ==
    \/ P4rtInit
    \/ CreateOk
    \/ PiUpdate(PiThreads)
    \/ PiAssign(PiThreads)

SpecPi == Init /\ [][NextPi]_vars

\* The bridge's calls on the program slot.
Program ==
    \/ \E p \in DevIds, data \in Payloads, file_ok, alloc_ok, insert_ok \in BOOLEAN :
          InitializeDatapath(p, data, file_ok, alloc_ok, insert_ok)
    \/ \E p \in DevIds : ProgDel(p)

\* One PI caller and the bridge's program calls on a created device.
NextProg ==
    \/ P4rtInit
    \/ CreateOk
    \/ Program
    \/ PiUpdate({"pi1"})
SpecProg == Init /\ [][NextProg]_vars

\* The whole life of a device in the bridge's hands: created (construct()
\* may fail), given ports and a program, destroyed, reclaimed by the RCU
\* thread.  The netdev and port calls of update_port() and the loading of
\* the program succeed here.
NextLife ==
    \/ P4rtInit
    \/ CreateOk
    \/ CreateConstruct(FALSE)
    \/ \E p \in DevIds, name \in NetNames, n \in ReqPorts :
          PortAdd(p, name, n, TRUE, EnvOk)
    \/ \E p \in DevIds, name \in NetNames : PortDel(p, name, EnvOk)
    \/ \E p \in DevIds, data \in Payloads :
          InitializeDatapath(p, data, TRUE, TRUE, TRUE)
    \/ \E p \in DevIds, del \in BOOLEAN : Destroy(p, del)
    \/ Rcu

SpecLife == Init /\ [][NextLife]_vars

\* ------------------------------------------------------------ properties
\* The last event of the last step: what a call that ended there returned.
Returned(status) ==
    /\ trace # <<>>
    /\ trace[Len(trace)].e = "return"
    /\ trace[Len(trace)].s = status

\* C1: a lookup by name never returns a device that is registered but whose
\* backend construct() has not yet succeeded: the record the reader holds was
\* fully constructed when p4rt_lookup() returned it.
C1_LookupReturnsConstructed == rdr.pc = "hold" => rdr.cons

\* C2: once p4rt_destroy() has returned for a device, a lookup by its name and
\* a lookup by its numeric id both return not-found: the device is no
\* possible result of either.
C2_DestroyedNotFound ==
    \A p \in DevIds :
        dev[p].dead => /\ p \notin p4rt_lookup(dev[p].name)
                       /\ p \notin p4rt_lookup_by_dev_id(dev[p].dev_id)

\* C3: no reader holds a reference to the record of a device given to
\* p4rt_destroy() that has been deallocated: the record is still allocated
\* for as long as a reader that got it from a lookup is using it.
C3_NoReaderOfFreedDevice ==
    (rdr.pc = "hold" /\ dev[rdr.p].dead) => dev[rdr.p].mem = "live"

\* No registered class enumerates the type, once normalized.
UnsupportedType(type) ==
    \A i \in 1..Len(p4rt_classes) :
        dpif_normalize_type(type) \notin enumerate_types(p4rt_classes[i])

\* C10: a p4rt_create() whose (normalized) type no registered class
\* enumerates fails with EAFNOSUPPORT and leaves the registry as it was: no
\* record is allocated or linked, and the call is over.
C10_UnsupportedTypeFails ==
    [][(/\ trace' # <<>>
        /\ trace'[1].e = "p4rt_create"
        /\ UnsupportedType(trace'[1].s))
       => /\ last'.op = "create"
          /\ last'.err = EAFNOSUPPORT
          /\ all_p4rts' = all_p4rts
          /\ dev' = dev
          /\ owned' = owned
          /\ mgmt'.pc = "idle"]_vars

\* A create of an unsupported type has just failed while a class is
\* registered and a device the caller holds is in the registry.
C10_Witness ==
    /\ last.op = "create"
    /\ last.err = EAFNOSUPPORT
    /\ p4rt_classes # <<>>
    /\ all_p4rts # {}
    /\ owned # {}
    /\ trace # <<>>
    /\ trace[1].e = "p4rt_create"
    /\ trace[1].s = "bogus"

\* C4: when p4rt_port_del() of a netdev succeeds right after a successful
\* p4rt_port_add() of that netdev (no port number asked for) to the same
\* device, no port of the device has that netdev's name and the device has as
\* many ports as before the add.
C4_AddThenDelRoundTrip ==
    (last.op = "port_del" /\ last.err = 0 /\ last.after_add)
    => /\ p4rt_get_port_by_name(dev[last.p].ports, last.name) = {}
       /\ Cardinality(dev[last.p].ports) = last.n0

\* The port table update_port() leaves, run on the device's table and the
\* backend's port list as they are.
Reconciled(ports, p, name, env) ==
    update_port([ports |-> ports, refs |-> netdev_refs, tr |-> <<>>],
                dev[p].name, dev[p].dp, name, env).c.ports

\* C5: for every device, port name and outcome of the netdev and backend
\* calls, update_port() run a second time on the same backend port list
\* leaves the port table the first run left.
C5_ReconcileIdempotent ==
    \A p \in owned, name \in NetNames, env \in Envs :
        Reconciled(Reconciled(dev[p].ports, p, name, env), p, name, env)
            = Reconciled(dev[p].ports, p, name, env)

\* The last call ran update_port() and installed a port, the device has
\* ports, and a first run for some other name would change the table.
C5_Witness ==
    /\ last.op = "port_add"
    /\ last.err = 0
    /\ At(trace, "hmap_insert") # {}
    /\ dev[last.p].ports # {}
    /\ \E name \in NetNames, env \in Envs :
          /\ Reconciled(dev[last.p].ports, last.p, name, env) # dev[last.p].ports
          /\ Reconciled(dev[last.p].ports, last.p, name, env) # {}

\* The events of t about netdev n and port number h that are named e.
AtPort(t, e, n, h) == {i \in At(t, e) : t[i].s = n /\ t[i].n = h}

\* The step ran update_port() for 'name' on device p, the backend reported
\* port number h for it, the netdev opened, and the table held the port
\* 'old' of another netdev under h.
ReplacesStale(p, name, old) ==
    /\ last'.op \in {"port_add", "port_del"}
    /\ last'.p = p
    /\ last'.name = name
    /\ p4rt_port_query_by_name(dev'[p].dp, name).err = 0
    /\ p4rt_port_query_by_name(dev'[p].dp, name).port_no = old.port_no
    /\ old.port_no \in PortNos
    /\ At(trace', "port_query_by_name") # {}
    /\ At(trace', "netdev_open") # {}
    /\ old \in dev[p].ports
    /\ old.netdev # name

\* C6: when update_port() finds the backend-reported number of a port name
\* in the table under another netdev's name, the old port goes through
\* port_destruct(del = true), removal from the table, the close of its netdev
\* and port_dealloc, in that order and before the new port is inserted; its
\* netdev is closed exactly once; and the old record is no longer in the
\* table, whose port under that number, if the install succeeded, is the new
\* one.
C6_StalePortReplaced ==
    [][\A p \in DevIds, name \in NetNames : \A old \in dev[p].ports :
         ReplacesStale(p, name, old)
         => LET t == trace'
                h == old.port_no
            IN  /\ \E i \in AtPort(t, "port_destruct", old.netdev, h) :
                   \E j \in AtPort(t, "hmap_remove", old.netdev, h) :
                   \E k \in AtPort(t, "netdev_close", old.netdev, 0) :
                   \E l \in AtPort(t, "port_dealloc", old.netdev, h) :
                      /\ t[i].b
                      /\ i < j /\ j < k /\ k < l
                      /\ \A m \in AtPort(t, "hmap_insert", name, h) : l < m
                      /\ \A m \in AtPort(t, "port_alloc", name, h) : l < m
                /\ Cardinality(AtPort(t, "port_destruct", old.netdev, h)) = 1
                /\ Cardinality(AtPort(t, "netdev_close", old.netdev, 0)) = 1
                /\ netdev_refs'[old.netdev] = netdev_refs[old.netdev] - 1
                /\ old \notin dev'[p].ports
                /\ (\E m \in AtPort(t, "port_construct", name, h) : t[m].b)
                   => p4rt_get_port(dev'[p].ports, h)
                          = [port_no |-> h, netdev |-> name]]_vars

\* The last call removed a stale port and installed the new one under its
\* number.
C6_Witness ==
    /\ last.op = "port_add"
    /\ last.err = 0
    /\ \E i \in At(trace, "port_destruct") :
       \E m \in At(trace, "hmap_insert") :
          /\ trace[i].n = trace[m].n
          /\ trace[i].s # trace[m].s
          /\ [port_no |-> trace[m].n, netdev |-> trace[m].s] \in dev[last.p].ports

\* The program records allocated and not freed that belong to device p.
LivePrograms(progs, p) ==
    {g \in ProgIds : progs[g].mem = "live" /\ progs[g].p4rt = p}

\* C7: when _pi_update_device_start() calls follow one another, a call that
\* succeeds leaves in the device's slot one program holding the bytes and the
\* length of that call, which is the record the slot already held when there
\* was one, and the device has no other live program.
C7_OneProgramLatestBytes ==
    [][\A t \in PiThreads :
         (/\ pi[t].pc = "insert"
          /\ trace' # <<>>
          /\ trace'[Len(trace')] = Return(t, "SUCCESS"))
         => LET p == pi[t].p IN
            /\ dev'[p].prog # NULL
            /\ prog'[dev'[p].prog].mem = "live"
            /\ prog'[dev'[p].prog].data = pi[t].data
            /\ prog'[dev'[p].prog].data_len = Len(pi[t].data)
            /\ dev[p].prog # NULL => dev'[p].prog = dev[p].prog
            /\ LivePrograms(prog', p) = {dev'[p].prog}
            /\ Cardinality({g \in ProgIds : prog'[g].mem = "live"})
                   <= Cardinality(all_p4rts)]_vars

\* A call has just succeeded with the record the slot already held; the slot
\* holds the two bytes of that call.
C7_Witness ==
    /\ Returned("SUCCESS")
    /\ \E i \in At(trace, "write_prog") :
          /\ ~trace[i].b
          /\ \E p \in all_p4rts :
                /\ dev[p].prog = trace[i].n
                /\ prog[dev[p].prog].data = <<2, 3>>
                /\ prog[dev[p].prog].data_len = 2

\* C8: a _pi_update_device_start() whose program_insert() fails returns
\* PI_STATUS_TARGET_ERROR, leaves the slot and the program it held with the
\* bytes and length they had, and when it allocated a record for an empty
\* slot that record is deallocated and the slot still empty.
C8_FailedInsertPreserves ==
    [][\A t \in PiThreads :
         (/\ pi[t].pc = "insert"
          /\ \E i \in At(trace', "program_insert") : ~trace'[i].b)
         => LET p == pi[t].p IN
            /\ trace'[Len(trace')] = Return(t, "TARGET_ERROR")
            /\ dev'[p].prog = dev[p].prog
            /\ dev[p].prog # NULL => prog'[dev[p].prog] = prog[dev[p].prog]
            /\ (dev[p].prog = NULL /\ pi[t].fresh)
               => prog'[pi[t].g].mem = "freed"]_vars

\* C9: two concurrent _pi_update_device_start() calls on one device never
\* both find the slot empty and both allocate a program.
C9_NoDoubleAllocation ==
    \A t1, t2 \in PiThreads :
        (/\ t1 # t2
         /\ pi[t1].pc = "insert" /\ pi[t1].fresh
         /\ pi[t2].pc = "insert" /\ pi[t2].fresh)
        => pi[t1].p # pi[t2].p

\* C11: when class->construct() fails in p4rt_create(), the call returns the
\* error and hands no device to the caller, and when it returns the record is
\* out of all_p4rts (which is otherwise as it was), no lookup of the name can
\* return it, and class->dealloc() has been called exactly once for it.
C11_ConstructFailureUndone ==
    [][(/\ mgmt.pc = "construct"
        /\ trace' # <<>>
        /\ trace'[1].e = "construct"
        /\ ~trace'[1].b)
       => LET p == mgmt.p IN
          /\ last'.op = "create"
          /\ last'.err # 0
          /\ last'.p = NULL
          /\ owned' = owned
          /\ mgmt'.pc = "idle"
          /\ p \in all_p4rts
          /\ all_p4rts' = all_p4rts \ {p}
          /\ p \notin {i \in all_p4rts' : dev'[i].name = dev[p].name}
          /\ dev'[p].mem = "freed"
          /\ Cardinality({i \in At(trace', "dealloc") : trace'[i].n = p}) = 1
          /\ \A i \in At(trace', "hmap_remove_p4rt") :
             \A j \in At(trace', "dealloc") : i < j]_vars

\* A create has just failed in construct() while another record is in the
\* registry.
C11_Witness ==
    /\ last.op = "create"
    /\ last.err = EBACKEND
    /\ At(trace, "construct") # {}
    /\ At(trace, "dealloc") # {}
    /\ all_p4rts # {}

\* C12: in every state reached by p4rt_port_add() and p4rt_port_del() calls
\* (each of which runs update_port()), no two ports of a device's port table
\* have the same port number.
C12_PortNumbersUnique ==
    \A p \in DevIds : \A q1, q2 \in dev[p].ports :
        q1.port_no = q2.port_no => q1 = q2

\* The last call put a port under a number from which it had removed another
\* port, in a table that holds two ports.
C12_Witness ==
    /\ last.op = "port_add"
    /\ Cardinality(dev[last.p].ports) = 2
    /\ \E i \in At(trace, "hmap_remove") : \E j \in At(trace, "hmap_insert") :
          /\ i < j
          /\ trace[i].n = trace[j].n
          /\ \E q \in dev[last.p].ports : q.port_no = trace[j].n

\* The step is a p4rt_port_add() with no port number asked for, on a device
\* whose port table was empty, and it returned 0.
AddedToFresh ==
    /\ trace' # <<>>
    /\ trace'[1].e = "p4rt_port_add"
    /\ trace'[1].n = OFPP_NONE
    /\ last'.err = 0
    /\ last'.nbefore = 0

\* The step is a p4rt_create() that has just handed a device to its caller.
Created ==
    /\ trace' # <<>>
    /\ trace'[1].e = "construct"
    /\ trace'[1].b

\* What p4rt_query_switch_features() of device p reports after the step.
FeaturesAfter(p) == p4rt_query_switch_features(all_p4rts', dev', dev'[p].name)

\* C13: p4rt_query_switch_features() of a device just created reports no
\* port and no table, and after a p4rt_port_add() with no port number asked
\* for has returned 0 on it, it reports one port and no table.
C13_AddThenOnePort ==
    [][/\ Created =>
            FeaturesAfter(mgmt.p) = {[err |-> 0, n_tables |-> 0, n_ports |-> 0]}
       /\ AddedToFresh =>
            FeaturesAfter(last'.p) = {[err |-> 0, n_tables |-> 0, n_ports |-> 1]}
      ]_vars

\* C13, amended: as C13, but the one port is reported only when the netdev
\* could be opened; when netdev_open() failed, p4rt_port_add() still returned
\* 0 and no port is reported.
C13_AddThenOnePortIfOpened ==
    [][/\ Created =>
            FeaturesAfter(mgmt.p) = {[err |-> 0, n_tables |-> 0, n_ports |-> 0]}
       /\ (AddedToFresh /\ At(trace', "netdev_open") # {}) =>
            FeaturesAfter(last'.p) = {[err |-> 0, n_tables |-> 0, n_ports |-> 1]}
       /\ (AddedToFresh /\ At(trace', "netdev_open_failed") # {}) =>
            FeaturesAfter(last'.p) = {[err |-> 0, n_tables |-> 0, n_ports |-> 0]}
      ]_vars

\* A p4rt_port_add() with no port number asked for has just returned 0 on a
\* device that had no port, its netdev was opened, and the device has a port.
C13_Witness ==
    /\ last.op = "port_add"
    /\ last.err = 0
    /\ last.req = OFPP_NONE
    /\ last.nbefore = 0
    /\ At(trace, "netdev_open") # {}
    /\ p4rt_query_switch_features(all_p4rts, dev, dev[last.p].name)
           = {[err |-> 0, n_tables |-> 0, n_ports |-> 1]}

\* Every type name some backend enumerates, and the ones callers pass.
AllTypes == TypeNames \cup UNION {enumerate_types(c) : c \in Classes}

\* p4rt_classes lists no class twice, and p4rt_class_find__() returns the
\* class of lowest index that enumerates the type, "" when none does.
RegistryInOrder ==
    /\ \A i, j \in 1..Len(p4rt_classes) :
          p4rt_classes[i] = p4rt_classes[j] => i = j
    /\ \A type \in AllTypes :
          /\ \A i \in 1..Len(p4rt_classes) :
                (/\ type \in enumerate_types(p4rt_classes[i])
                 /\ \A j \in 1..(i - 1) :
                       type \notin enumerate_types(p4rt_classes[j]))
                => p4rt_class_find__(type) = p4rt_classes[i]
          /\ (\A i \in 1..Len(p4rt_classes) :
                 type \notin enumerate_types(p4rt_classes[i]))
             => p4rt_class_find__(type) = ""

\* A p4rt_class_register() of a class already listed returns EEXIST and
\* leaves the list as it was; of any other class returns 0 and appends it.
RegisterStep ==
    (trace' # <<>> /\ trace'[1].e = "p4rt_class_register")
    => LET c == trace'[1].s IN
       IF \E i \in 1..Len(p4rt_classes) : p4rt_classes[i] = c
       THEN last'.err = EEXIST /\ p4rt_classes' = p4rt_classes
       ELSE last'.err = 0 /\ p4rt_classes' = Append(p4rt_classes, c)

\* C14: after any sequence of p4rt_class_register() calls the registry lists
\* each class once, in the order of first registration (a repeated
\* registration returns EEXIST and changes nothing, a first one appends), and
\* p4rt_class_find__() returns the earliest registered class that enumerates
\* the type, or none.
C14_RegistryOrderAndFind == []RegistryInOrder /\ [][RegisterStep]_vars

\* Both classes are registered, "dummy" first, a repeated registration has
\* just failed, and the type both enumerate resolves to "dummy".
C14_Witness ==
    /\ p4rt_classes = <<"dummy", "dpif">>
    /\ last.op = "register"
    /\ last.err = EEXIST
    /\ p4rt_class_find__("netdev") = "dummy"
    /\ p4rt_class_find__("system") = "dpif"
    /\ p4rt_class_find__("bogus") = ""

\* The step is the start of the PI call named e, for a device id that no
\* record of all_p4rts has.
PiCallOfUnknownId(e) ==
    /\ trace' # <<>>
    /\ trace'[1].e = e
    /\ \A i \in all_p4rts : dev[i].dev_id # trace'[1].n

\* The step made no call but the lookup and changed no record: it returned
\* 'status', no program record and no device record is other than it was,
\* and no PI thread holds anything it did not hold.
ReturnedUntouched(status) ==
    /\ Len(trace') = 3
    /\ trace'[2].e = "p4rt_lookup_by_dev_id"
    /\ trace'[3] = Ev("return", status, 0)
    /\ prog' = prog
    /\ dev' = dev
    /\ all_p4rts' = all_p4rts
    /\ pi' = pi

\* C15: when no record has the device id, _pi_assign_device() returns
\* PI_STATUS_DEV_NOT_ASSIGNED and _pi_update_device_start() returns
\* PI_STATUS_DEV_OUT_OF_RANGE, and neither allocates a program, calls the
\* backend or writes a device's p4info or program slot.
C15_UnknownIdChangesNothing ==
    [][/\ PiCallOfUnknownId("_pi_assign_device")
            => ReturnedUntouched("DEV_NOT_ASSIGNED")
       /\ PiCallOfUnknownId("_pi_update_device_start")
            => ReturnedUntouched("DEV_OUT_OF_RANGE")]_vars

\* A _pi_update_device_start() for an id no record has has just returned
\* while a device with a program and a p4info is registered.
C15_Witness ==
    /\ Returned("DEV_OUT_OF_RANGE")
    /\ trace[1].e = "_pi_update_device_start"
    /\ trace[1].n = 1
    /\ \E p \in all_p4rts : dev[p].prog # NULL /\ dev[p].p4info # NULL

\* The calls into the backend that construct, destruct or deallocate a
\* device or a port, or add or delete a port.
LifecycleCalls == {"construct", "destruct", "dealloc", "port_construct",
                   "port_destruct", "port_add", "port_del"}

\* What the code does between ovs_mutex_lock() and ovs_mutex_unlock(): the
\* registry insert (with the initialisation of the record) and remove.
UnderLock == {"hmap_insert_p4rt", "hmap_remove_p4rt"}

\* Whether p4rt_mutex is held when the i-th call of t is made: more locks
\* than unlocks came before it.
HeldAt(t, i) ==
    Cardinality({j \in At(t, "lock") : j < i})
        > Cardinality({j \in At(t, "unlock") : j < i})

\* C16: no device or port lifecycle call of the backend is made while
\* p4rt_mutex is held: in every call of the bridge and every callback, the
\* mutex is held only around the registry insert or remove, and is released
\* when the step ends.
C16_NoBackendCallUnderLock ==
    /\ \A i \in 1..Len(trace) :
          /\ trace[i].e \in LifecycleCalls => ~HeldAt(trace, i)
          /\ (HeldAt(trace, i) /\ trace[i].e # "unlock")
                => trace[i].e \in UnderLock
    /\ ~HeldAt(trace, Len(trace) + 1)

\* A postponed p4rt_destroy__() has just run: it took the mutex, removed the
\* record, released the mutex and then called dealloc(), for a device whose
\* destroy had destructed a port.
C16_Witness ==
    /\ Len(trace) = 5
    /\ trace[1].e = "p4rt_destroy__"
    /\ trace[2] = Lock
    /\ trace[3].e = "hmap_remove_p4rt"
    /\ trace[4] = Unlock
    /\ trace[5].e = "dealloc"
    /\ last.op = "destroy"
    /\ last.nbefore > 0

\* The step reconciled a port the backend reported and netdev_open() failed.
OpenFailed == At(trace', "netdev_open_failed") # {}

\* C17: when the backend reports the port and netdev_open() fails,
\* update_port() reports no error and does nothing else: the call returns 0,
\* the device's ports are exactly those it had, no port is destructed or
\* constructed, and no netdev reference is taken or dropped.
C17_OpenFailureSkipsPort ==
    [][OpenFailed =>
          /\ last'.err = 0
          /\ dev'[last'.p].ports = dev[last'.p].ports
          /\ netdev_refs' = netdev_refs
          /\ \A e \in {"netdev_open", "netdev_close", "hmap_insert",
                       "hmap_remove", "port_construct", "port_destruct"} :
                At(trace', e) = {}]_vars

\* A p4rt_port_add() on a device that has a port, whose netdev_open() failed.
C17_Witness ==
    /\ last.op = "port_add"
    /\ At(trace, "netdev_open_failed") # {}
    /\ dev[last.p].ports # {}
    /\ \E n \in NetNames : netdev_refs[n] > 0

\* The step is a p4rt_destroy().
DestroyStep == trace' # trace /\ Len(trace') > 0 /\ trace'[1].e = "p4rt_destroy"

\* The index in t of the one call e made for port q, or 0 when there is not
\* exactly one.
PortCall(t, e, q) ==
    LET I == {i \in At(t, e) : t[i].s = q.netdev /\ t[i].n = q.port_no}
    IN  IF Cardinality(I) = 1 THEN CHOOSE i \in I : TRUE ELSE 0

\* C18: p4rt_destroy(p, del) works in a fixed order.  Each port the device
\* had is destructed with del, unlinked, its netdev closed and deallocated;
\* after all of them the program in p->prog, if any, is deleted and
\* deallocated; then destruct(p, del) is called, with no port left in the
\* device; the postponement of p4rt_destroy_defer__ is last.
C18_DestroyOrder ==
    [][DestroyStep =>
        LET t == trace'
            p == last'.p
            del == t[1].b
            n == Len(t)
            firstProg == IF dev[p].prog = NULL THEN n - 1 ELSE n - 3
        IN  /\ t[1].n = p
            /\ t[n] = Ev("ovsrcu_postpone", "p4rt_destroy_defer__", p)
            /\ t[n - 1] = EvB("destruct", dev[p].name, p, del)
            /\ At(t, "destruct") = {n - 1}
            /\ dev'[p].ports = {}
            /\ dev[p].prog # NULL =>
                  /\ t[n - 3].e = "prog_del" /\ t[n - 3].n = dev[p].prog
                  /\ t[n - 2].e = "prog_dealloc" /\ t[n - 2].n = dev[p].prog
                  /\ prog'[dev[p].prog].mem = "freed"
            /\ dev[p].prog = NULL => At(t, "prog_del") = {}
            /\ n = firstProg + 1 + (IF dev[p].prog = NULL THEN 0 ELSE 2)
            /\ firstProg = 2 + 4 * Cardinality(dev[p].ports)
            /\ \A q \in dev[p].ports :
                  LET i == PortCall(t, "port_destruct", q) IN
                  /\ i > 1
                  /\ t[i].b = del
                  /\ PortCall(t, "hmap_remove", q) = i + 1
                  /\ t[i + 2] = Ev("netdev_close", q.netdev, 0)
                  /\ PortCall(t, "port_dealloc", q) = i + 3
                  /\ i + 3 < firstProg
            /\ \A nm \in NetNames :
                  netdev_refs'[nm] = netdev_refs[nm]
                      - Cardinality({q \in dev[p].ports : q.netdev = nm})]_vars

\* A p4rt_destroy() of a device that had two ports and a program.
C18_Witness ==
    /\ last.op = "destroy"
    /\ last.nbefore = 2
    /\ At(trace, "prog_del") # {}
    /\ Cardinality(At(trace, "port_destruct")) = 2
    /\ At(trace, "destruct") # {}

\* C19: the program slot of a device never refers to a deallocated program:
\* whenever p->prog is not NULL the program it names is allocated.
C19_SlotNeverDangles ==
    \A p \in owned : dev[p].prog # NULL => prog[dev[p].prog].mem = "live"

\* The ports, over all devices, that hold the netdev named nm.
Holders(nm) == {x \in DevIds \X PortNos \cup (DevIds \X {OFPP_LOCAL}) :
                   [port_no |-> x[2], netdev |-> nm] \in dev[x[1]].ports}

\* C20: no netdev opened by update_port() is leaked: the references taken by
\* netdev_open() and not yet dropped by netdev_close() are exactly those held
\* by the ports in the devices' port tables.
C20_NoNetdevLeak ==
    \A nm \in NetNames : netdev_refs[nm] = Cardinality(Holders(nm))

\* C21: no two ports in one device's port table have netdevs of the same
\* name, also after the backend reports a name that is installed under one
\* number with another number.
C21_PortNamesUnique ==
    \A p \in DevIds : \A q1, q2 \in dev[p].ports :
        q1.netdev = q2.netdev => q1 = q2

====
